---------------------------- MODULE Spec2Model ----------------------------
(***************************************************************************)
(* Model of the disruption alternative finder of AutoRescue:               *)
(* lambda_functions/analyze_disruption/lambda_function.py                  *)
(*   _search_alternative_flights  (the per-day scan, sort and top-10 cut)  *)
(*   analyze_disruption           (categories, price range, totals)        *)
(*   lambda_handler               (required parameters, status code)       *)
(*                                                                         *)
(* A price total is a string of decimal digits, modelled as a sequence of  *)
(* digits (<<1, 0>> is "10", <<>> is the empty string); float() turns it   *)
(* into a number or raises.  The flight-search provider is the             *)
(* environment: each day-query draws its reply from ProviderReplies.       *)
(***************************************************************************)
EXTENDS Integers, Sequences, FiniteSets, TLC

\* Largest days_range with which _search_alternative_flights is called
\* directly (analyze_disruption always passes AnalyzeDaysRange).
MaxDaysRange == 2

\* days_range=3 in analyze_disruption's call of the search
AnalyzeDaysRange == 3
\* data.get('data', [])[:3]
PerDayCap == 3
\* all_alternatives[:10]
TopN == 10
\* same_day[:3], next_day[:3], other_days[:4]
SameDayCap == 3
NextDayCap == 3
OtherDaysCap == 4

VARIABLES
    pc,               \* position of the call: idle, analyze, token, parse, loop,
                      \* returned, done, responded
    event,            \* the body lambda_handler read from its event
    token_calls,      \* number of calls of _get_amadeus_token
    response,         \* value returned by lambda_handler
    caller,           \* "analyze" (analyze_disruption) or "direct" (the search itself)
    original_date,    \* the original_date argument, <<year, month, day>> as written
    days_range,       \* parameter of _search_alternative_flights
    day_offset,       \* loop variable of the scan
    all_alternatives, \* local list of _search_alternative_flights
    queries,          \* offsets for which requests.get was issued, in issue order
    replies,          \* the provider's reply to each issued query
    raised,           \* where the search's except clause was entered ("none" if not)
    alternatives,     \* value returned by _search_alternative_flights
    result            \* value returned by analyze_disruption

\* the Lambda container of the disruption function, reused across invocations
VARIABLES
    now,              \* datetime.now(), in seconds since the container started
    token_cache,      \* _token_cache: access_token and expiry
    secrets_cache,    \* _secrets_cache: amadeus_credentials and fetched_at
    accepted,         \* the access tokens the provider accepts at present
    access_token,     \* the search's local access_token
    token_requests,   \* number of requests sent to the token endpoint
    invocations       \* number of invocations the container has served

\* the offer-price Lambda: get_amadeus_credentials and its cache
VARIABLES
    offer_now,           \* datetime.now(), in seconds since the container started
    offer_secrets_cache, \* _secrets_cache: whether 'amadeus_credentials' is in
                         \* it, and the cached_time of the entry
    offer_last           \* the last call's outcome, and the entry's age at the call

\* the agent runtime process: the entrypoint and the global agent instance
VARIABLES
    ACCESS_TOKEN,        \* os.getenv("ACCESS_TOKEN") as the module is loaded
    agent_instance,      \* _agent_instance: NoAgent, or the agent constructed
    agent_constructions, \* calls of AutoRescueAgent(...) so far
    agent_entries,       \* invocations of the entrypoint so far
    agent_last           \* the last invocation: what it returned, the bearer
                         \* token it had, the agent that answered

\* one browser session of the Streamlit front end
VARIABLES
    session_state,       \* st.session_state: authenticated, username,
                         \* login_attempts, agent_runtime_config
    home_page,           \* what the last run of the script showed, and whether
                         \* the runtime ARN was configured in that run
    home_uuids           \* uuid.uuid4() values drawn so far

scanVars == <<pc, event, token_calls, response, caller, original_date, days_range,
              day_offset, all_alternatives, queries, replies, raised, alternatives,
              result>>

containerVars == <<now, token_cache, secrets_cache, accepted, access_token,
                   token_requests, invocations>>

offerVars == <<offer_now, offer_secrets_cache, offer_last>>

agentVars == <<ACCESS_TOKEN, agent_instance, agent_constructions, agent_entries,
               agent_last>>

homeVars == <<session_state, home_page, home_uuids>>

\* what a step of one invocation's scan leaves alone
beyondScan == <<containerVars, offerVars, agentVars, homeVars>>

\* what a step of the disruption function's container leaves alone
beyondContainer == <<offerVars, agentVars, homeVars>>

\* what a step of the offer-price Lambda leaves alone
beyondOffer == <<scanVars, containerVars, agentVars, homeVars>>

\* what a step of the agent runtime leaves alone
beyondAgent == <<scanVars, containerVars, offerVars, homeVars>>

\* what a run of the Streamlit script leaves alone
beyondHome == <<scanVars, containerVars, offerVars, agentVars>>

vars == <<scanVars, containerVars, offerVars, agentVars, homeVars>>

---------------------------------------------------------------------------
(* Pure helpers *)

Abs(n) == IF n < 0 THEN -n ELSE n

Min(a, b) == IF a <= b THEN a ELSE b

\* Python slice s[:n]
Take(s, n) == SubSeq(s, 1, Min(n, Len(s)))

\* float(text) raises ValueError on the empty string
FloatOk(text) == Len(text) > 0

\* float(text) for a string of decimal digits
RECURSIVE ToFloat(_)
ToFloat(text) ==
    IF text = <<>> THEN 0
    ELSE 10 * ToFloat(SubSeq(text, 1, Len(text) - 1)) + text[Len(text)]

\* calendar of datetime.strptime(original_date, "%Y-%m-%d")
IsLeap(y) == (y % 4 = 0 /\ y % 100 # 0) \/ y % 400 = 0

DaysInMonth(y, m) ==
    IF m = 2 THEN (IF IsLeap(y) THEN 29 ELSE 28)
    ELSE IF m \in {4, 6, 9, 11} THEN 30 ELSE 31

\* %Y takes exactly four digits, %m a month, %d a day of that month
StrptimeOk(date) ==
    /\ Len(date) = 3
    /\ date[1] \in 1000..9999
    /\ date[2] \in 1..12
    /\ date[3] \in 1..DaysInMonth(date[1], date[2])

\* datetime's day number of a date: 1 for 0001-01-01
DaysBeforeYear(y) == (y - 1) * 365 + (y - 1) \div 4 - (y - 1) \div 100 + (y - 1) \div 400

RECURSIVE DaysBeforeMonth(_, _)
DaysBeforeMonth(y, m) ==
    IF m <= 1 THEN 0 ELSE DaysBeforeMonth(y, m - 1) + DaysInMonth(y, m - 1)

ToOrdinal(date) == DaysBeforeYear(date[1]) + DaysBeforeMonth(date[1], date[2]) + date[3]

\* the date of a day number, by 400-, 100-, 4- and 1-year cycles
FromOrdinal(ordinal) ==
    LET n0   == ordinal - 1
        n400 == n0 \div 146097
        r400 == n0 % 146097
        n100 == r400 \div 36524
        r100 == r400 % 36524
        n4   == r100 \div 1461
        r4   == r100 % 1461
        n1   == r4 \div 365
        r1   == r4 % 365
        year == n400 * 400 + 1 + n100 * 100 + n4 * 4 + n1
        guess == (r1 + 50) \div 32
        month == IF DaysBeforeMonth(year, guess) > r1 THEN guess - 1 ELSE guess
    IN  IF n1 = 4 \/ n100 = 4 THEN <<year - 1, 12, 31>>
        ELSE <<year, month, r1 - DaysBeforeMonth(year, month) + 1>>

\* variant: the day number is shifted with no carry into the month or year
AddDays_NoCarry(date, n) == <<date[1], date[2], date[3] + n>>

\* (original_dt + timedelta(days=n)).strftime("%Y-%m-%d")
AddDays(date, n) == FromOrdinal(ToOrdinal(date) + n)

---------------------------------------------------------------------------
(* The environment: requests and provider replies *)

\* a key the body lacks (body.get gives None)
Absent == "<absent>"

\* bool(value) is False for None and for the empty string; a date that is
\* None or empty is written <<>>
Falsy(value) == value = Absent \/ value = ""

FalsyDate(date) == date = <<>>

Request(flight, origin, destination, date, reason, range) ==
    [original_flight |-> flight, origin |-> origin, destination |-> destination,
     original_date |-> date, disruption_reason |-> reason, days_range |-> range]

\* no body read (yet)
NoEvent == Request(Absent, Absent, Absent, <<>>, Absent, <<>>)

\* bodies lambda_handler is invoked with; days_range is <<>> when the body has
\* no such key and <<d>> when it carries the number d
Events ==
    { Request("AA123", "JFK", "LAX", <<2025, 12, 30>>, Absent, <<0>>),
      Request("UA9", "SFO", "ORD", <<15, 12, 2025>>, "delay", <<>>),
      Request(Absent, "JFK", "LAX", <<2025, 12, 30>>, Absent, <<>>),
      Request("AA123", "", "LAX", <<2025, 12, 30>>, "delay", <<>>),
      Request("AA123", "JFK", Absent, <<2025, 12, 30>>, Absent, <<>>),
      Request("AA123", "JFK", "LAX", <<>>, Absent, <<>>) }

\* original_date arguments of direct calls of the search
OriginalDates == { <<2024, 2, 28>>, <<15, 12, 2025>> }

Offer(total, duration, complete) ==
    [total |-> total, duration |-> duration, complete |-> complete]

BodyEmpty == <<>>
BodyThree == << Offer(<<1, 0>>, 1, TRUE), Offer(<<9>>, 2, TRUE),
                Offer(<<2, 5>>, 3, TRUE) >>
BodyFour  == << Offer(<<9>>, 1, TRUE), Offer(<<9>>, 2, TRUE),
                Offer(<<1, 0>>, 3, TRUE), Offer(<<5>>, 4, TRUE) >>
BodyBadPrice   == << Offer(<<>>, 1, TRUE) >>
BodyIncomplete == << Offer(<<9>>, 1, TRUE), Offer(<<7>>, 2, FALSE) >>

\* a reply with a JSON body: a status code and the list under 'data'
HttpReply(status, data) == [kind |-> "http", status |-> status, data |-> data]

OkReplies == { HttpReply(200, b) : b \in {BodyEmpty, BodyThree, BodyFour,
                                           BodyBadPrice, BodyIncomplete} }
Non200Replies == { HttpReply(s, <<>>) : s \in {500} }
\* requests.get raises (connection error, timeout)
NetworkErrorReply == [kind |-> "neterror", status |-> 0, data |-> <<>>]
\* status 200 whose body is not JSON: response.json() raises
NotJsonReply == [kind |-> "notjson", status |-> 200, data |-> <<>>]

ProviderReplies == OkReplies \cup Non200Replies \cup {NetworkErrorReply, NotJsonReply}

---------------------------------------------------------------------------
(* _search_alternative_flights *)

\* the flight_info dict built from one offer of the reply for day_offset
FlightInfo(offset, offer) ==
    [date |-> AddDays(original_date, offset), date_offset_days |-> offset,
     total |-> offer.total, duration |-> offer.duration]

\* for offer in data.get('data', [])[:3]: the offers read before the first
\* incomplete one (whose missing key raises KeyError)
RECURSIVE ReadableOffers(_)
ReadableOffers(offers) ==
    IF offers = <<>> \/ ~Head(offers).complete THEN <<>>
    ELSE <<Head(offers)>> \o ReadableOffers(Tail(offers))

\* variant: the slice is forgotten, every returned offer is read
OffersTaken_All(data) == data

OffersTaken(data) == Take(data, PerDayCap)

\* TRUE iff building flight_info raises for one of the offers taken
ExtractionRaises(data) == \E i \in 1..Len(OffersTaken(data)) : ~OffersTaken(data)[i].complete

\* the flight_info dicts appended to all_alternatives for one reply
Extracted(offset, data) ==
    LET offers == ReadableOffers(OffersTaken(data))
    IN  [i \in 1..Len(offers) |-> FlightInfo(offset, offers[i])]

\* variant: the key compares the signed offset, abs() forgotten
KeyLess_SignedOffset(a, b) ==
    \/ a.date_offset_days < b.date_offset_days
    \/ /\ a.date_offset_days = b.date_offset_days
       /\ ToFloat(a.total) < ToFloat(b.total)

\* variant: the key is (price, |offset|), the two components swapped
KeyLess_PriceFirst(a, b) ==
    \/ ToFloat(a.total) < ToFloat(b.total)
    \/ /\ ToFloat(a.total) = ToFloat(b.total)
       /\ Abs(a.date_offset_days) < Abs(b.date_offset_days)

\* sort key: (abs(x['date_offset_days']), float(x['price']['total']))
KeyLess(a, b) ==
    \/ Abs(a.date_offset_days) < Abs(b.date_offset_days)
    \/ /\ Abs(a.date_offset_days) = Abs(b.date_offset_days)
       /\ ToFloat(a.total) < ToFloat(b.total)

\* variant: an unstable sort, x is placed before the elements equal to it
RECURSIVE InsertSorted_Unstable(_, _)
InsertSorted_Unstable(x, s) ==
    IF s = <<>> THEN <<x>>
    ELSE IF ~KeyLess(Head(s), x) THEN <<x>> \o s
         ELSE <<Head(s)>> \o InsertSorted_Unstable(x, Tail(s))

\* stable insertion of x into the sorted list s, after every element not greater
RECURSIVE InsertSorted(_, _)
InsertSorted(x, s) ==
    IF s = <<>> THEN <<x>>
    ELSE IF KeyLess(x, Head(s)) THEN <<x>> \o s
         ELSE <<Head(s)>> \o InsertSorted(x, Tail(s))

\* list.sort(key=...): stable, ascending
RECURSIVE SortedByKey(_)
SortedByKey(s) ==
    IF s = <<>> THEN <<>>
    ELSE InsertSorted(s[Len(s)], SortedByKey(SubSeq(s, 1, Len(s) - 1)))

\* the key function raises when a price total is not a number
SortRaises(s) == \E i \in 1..Len(s) : ~FloatOk(s[i].total)

\* variant: the slice keeps the last ten, all_alternatives[-10:]
TopAlternatives_Last(s) == SubSeq(s, Len(s) - Min(TopN, Len(s)) + 1, Len(s))

\* all_alternatives[:10]
TopAlternatives(s) == Take(s, TopN)

\* no value returned by analyze_disruption yet
NoResult == [success |-> FALSE, message |-> "", recommendations |-> <<>>]

NoResponse == [statusCode |-> 0, body |-> NoResult]

ScanInit ==
    /\ pc = "idle"
    /\ event = NoEvent
    /\ token_calls = 0
    /\ response = NoResponse
    /\ caller = "none"
    /\ original_date = <<>>
    /\ days_range = 0
    /\ day_offset = 0
    /\ all_alternatives = <<>>
    /\ queries = <<>>
    /\ replies = <<>>
    /\ raised = "none"
    /\ alternatives = <<>>
    /\ result = NoResult

\* the except clause of the search: print and return []
SearchAborts(where) ==
    /\ raised' = where
    /\ alternatives' = <<>>
    /\ pc' = "returned"

\* variant: original_date is left out of the required parameters
RequiredPresent_NoDate(ev) ==
    /\ ~Falsy(ev.original_flight)
    /\ ~Falsy(ev.origin)
    /\ ~Falsy(ev.destination)

\* all([original_flight, origin, destination, original_date])
RequiredPresent(ev) ==
    /\ ~Falsy(ev.original_flight)
    /\ ~Falsy(ev.origin)
    /\ ~Falsy(ev.destination)
    /\ ~FalsyDate(ev.original_date)

MissingParametersResponse ==
    [statusCode |-> 400,
     body |-> [success |-> FALSE,
               error |-> "Missing required parameters: original_flight, origin, destination, original_date"]]

\* the handler's except clause: 500 with the error text
LambdaErrorResponse ==
    [statusCode |-> 500, body |-> [success |-> FALSE, error |-> "Lambda error"]]

\* variant: the exception is re-raised and leaves lambda_handler
LambdaHandlerRaises_Escapes ==
    /\ pc = "idle"
    /\ pc' = "escaped"
    /\ UNCHANGED <<event, token_calls, response, caller, original_date, days_range,
                   day_offset, all_alternatives, queries, replies, raised,
                   alternatives, result>>
    /\ UNCHANGED beyondScan

\* lambda_handler, the body cannot be read (json.loads raises, or the event or
\* the parsed body has no .get): no parameter is extracted, the except clause
\* answers
LambdaHandlerRaises ==
    /\ pc = "idle"
    /\ response' = LambdaErrorResponse
    /\ pc' = "responded"
    /\ UNCHANGED <<event, token_calls, caller, original_date, days_range, day_offset,
                   all_alternatives, queries, replies, raised, alternatives, result>>
    /\ UNCHANGED beyondScan

\* lambda_handler, a required parameter missing or empty: 400 at once
LambdaHandlerRejects ==
    /\ pc = "idle"
    /\ \E ev \in Events :
          /\ ~RequiredPresent(ev)
          /\ event' = ev
    /\ response' = MissingParametersResponse
    /\ pc' = "responded"
    /\ UNCHANGED <<token_calls, caller, original_date, days_range, day_offset,
                   all_alternatives, queries, replies, raised, alternatives, result>>
    /\ UNCHANGED beyondScan

\* lambda_handler, all required parameters given: analyze_disruption is called
LambdaHandlerAccepts ==
    /\ pc = "idle"
    /\ \E ev \in Events :
          /\ RequiredPresent(ev)
          /\ event' = ev
    /\ pc' = "analyze"
    /\ UNCHANGED <<token_calls, response, caller, original_date, days_range,
                   day_offset, all_alternatives, queries, replies, raised,
                   alternatives, result>>
    /\ UNCHANGED beyondScan

\* variant: the request's days_range is passed on when it has one
AnalyzeCall_RequestRange ==
    /\ pc = "analyze"
    /\ caller' = "analyze"
    /\ original_date' = event.original_date
    /\ days_range' = IF event.days_range = <<>> THEN AnalyzeDaysRange
                     ELSE event.days_range[1]
    /\ pc' = "token"
    /\ UNCHANGED <<event, token_calls, response, day_offset, all_alternatives,
                   queries, replies, raised, alternatives, result>>
    /\ UNCHANGED beyondScan

\* analyze_disruption calls the search with its original_date and days_range=3
AnalyzeCall ==
    /\ pc = "analyze"
    /\ caller' = "analyze"
    /\ original_date' = event.original_date
    /\ days_range' = AnalyzeDaysRange
    /\ pc' = "token"
    /\ UNCHANGED <<event, token_calls, response, day_offset, all_alternatives,
                   queries, replies, raised, alternatives, result>>
    /\ UNCHANGED beyondScan

\* a direct call _search_alternative_flights(origin, destination, date, d)
SearchCall ==
    /\ pc = "idle"
    /\ \E d \in 0..MaxDaysRange : days_range' = d
    /\ \E date \in OriginalDates : original_date' = date
    /\ caller' = "direct"
    /\ pc' = "token"
    /\ UNCHANGED <<event, token_calls, response, day_offset, all_alternatives,
                   queries, replies, raised, alternatives, result>>
    /\ UNCHANGED beyondScan

\* access_token = _get_amadeus_token()
GetTokenOk ==
    /\ pc = "token"
    /\ token_calls' = token_calls + 1
    /\ pc' = "parse"
    /\ UNCHANGED <<event, response, caller, original_date, days_range, day_offset, all_alternatives,
                   queries, replies, raised, alternatives, result>>
    /\ UNCHANGED beyondScan

\* _get_amadeus_token() raises (secrets fetch or token endpoint failure)
GetTokenFails ==
    /\ pc = "token"
    /\ token_calls' = token_calls + 1
    /\ SearchAborts("token")
    /\ UNCHANGED <<event, response, caller, original_date, days_range, day_offset, all_alternatives,
                   queries, replies, result>>
    /\ UNCHANGED beyondScan

\* variant: the date is not parsed before the loop
ParseDate_Unchecked ==
    /\ pc = "parse"
    /\ all_alternatives' = <<>>
    /\ day_offset' = -days_range
    /\ pc' = "loop"
    /\ UNCHANGED <<raised, alternatives>>
    /\ UNCHANGED <<caller, original_date, days_range, queries, replies, result>>
    /\ UNCHANGED <<event, token_calls, response>>
    /\ UNCHANGED beyondScan

\* original_dt = strptime(...); all_alternatives = []; the loop starts at -days_range
ParseDate ==
    /\ pc = "parse"
    /\ IF StrptimeOk(original_date)
       THEN /\ all_alternatives' = <<>>
            /\ day_offset' = -days_range
            /\ pc' = "loop"
            /\ UNCHANGED <<raised, alternatives>>
       ELSE /\ SearchAborts("date")
            /\ UNCHANGED <<all_alternatives, day_offset>>
    /\ UNCHANGED <<caller, original_date, days_range, queries, replies, result>>
    /\ UNCHANGED <<event, token_calls, response>>
    /\ UNCHANGED beyondScan

\* the request of one loop iteration is issued and answered by reply
Issue(reply) ==
    /\ pc = "loop"
    /\ day_offset <= days_range
    /\ queries' = Append(queries, day_offset)
    /\ replies' = Append(replies, reply)

\* requests.get raises: the exception leaves the loop
DayQueryNetworkError ==
    /\ Issue(NetworkErrorReply)
    /\ SearchAborts("query")
    /\ UNCHANGED <<caller, original_date, days_range, day_offset, all_alternatives,
                   result>>
    /\ UNCHANGED <<event, token_calls, response>>
    /\ UNCHANGED beyondScan

\* variant: a non-200 reply is turned into an exception (raise_for_status)
DayQueryNon200_Raises ==
    /\ \E reply \in Non200Replies : Issue(reply)
    /\ SearchAborts("query")
    /\ UNCHANGED <<caller, original_date, days_range, day_offset, all_alternatives,
                   result>>
    /\ UNCHANGED <<event, token_calls, response>>
    /\ UNCHANGED beyondScan

\* variant: a non-200 reply is retried, the offset is queried again
DayQueryNon200_Retry ==
    /\ \E reply \in Non200Replies : Issue(reply)
    /\ UNCHANGED <<pc, caller, original_date, days_range, day_offset, all_alternatives,
                   raised, alternatives, result>>
    /\ UNCHANGED <<event, token_calls, response>>
    /\ UNCHANGED beyondScan

\* response.status_code != 200: nothing is read, next iteration
DayQueryNon200 ==
    /\ \E reply \in Non200Replies : Issue(reply)
    /\ day_offset' = day_offset + 1
    /\ UNCHANGED <<pc, caller, original_date, days_range, all_alternatives, raised,
                   alternatives, result>>
    /\ UNCHANGED <<event, token_calls, response>>
    /\ UNCHANGED beyondScan

\* status 200 but response.json() raises
DayQueryNotJson ==
    /\ Issue(NotJsonReply)
    /\ SearchAborts("query")
    /\ UNCHANGED <<caller, original_date, days_range, day_offset, all_alternatives,
                   result>>
    /\ UNCHANGED <<event, token_calls, response>>
    /\ UNCHANGED beyondScan

\* status 200 with a JSON body: the first three offers are appended; an offer
\* lacking a key raises after the offers before it were appended
DayQueryOk ==
    /\ \E reply \in OkReplies :
        /\ Issue(reply)
        /\ all_alternatives' = all_alternatives \o Extracted(day_offset, reply.data)
        /\ IF ExtractionRaises(reply.data)
           THEN /\ SearchAborts("query")
                /\ UNCHANGED day_offset
           ELSE /\ day_offset' = day_offset + 1
                /\ UNCHANGED <<pc, raised, alternatives>>
    /\ UNCHANGED <<caller, original_date, days_range, result>>
    /\ UNCHANGED <<event, token_calls, response>>
    /\ UNCHANGED beyondScan

\* after the loop: all_alternatives.sort(...); return all_alternatives[:10]
SortAndReturn ==
    /\ pc = "loop"
    /\ day_offset > days_range
    /\ IF SortRaises(all_alternatives)
       THEN /\ SearchAborts("sort")
            /\ UNCHANGED all_alternatives
       ELSE /\ all_alternatives' = SortedByKey(all_alternatives)
            /\ alternatives' = TopAlternatives(SortedByKey(all_alternatives))
            /\ pc' = "returned"
            /\ UNCHANGED raised
    /\ UNCHANGED <<caller, original_date, days_range, day_offset, queries, replies,
                   result>>
    /\ UNCHANGED <<event, token_calls, response>>
    /\ UNCHANGED beyondScan

---------------------------------------------------------------------------
(* analyze_disruption *)

\* same_day / next_day / other_days list comprehensions
SameDay(s) == SelectSeq(s, LAMBDA f : f.date_offset_days = 0)

NextDay(s) == SelectSeq(s, LAMBDA f : f.date_offset_days = 1)

\* variant: abs() forgotten, the days before the original date are left out
OtherDays_NoAbs(s) == SelectSeq(s, LAMBDA f : f.date_offset_days > 1)

OtherDays(s) == SelectSeq(s, LAMBDA f : Abs(f.date_offset_days) > 1)

\* variant: the category lists its whole bucket, the slice forgotten
Category_Uncapped(name, priority, bucket, cap) ==
    [category |-> name, priority |-> priority, count |-> Len(bucket),
     flights |-> bucket]

Category(name, priority, bucket, cap) ==
    [category |-> name, priority |-> priority, count |-> Len(bucket),
     flights |-> Take(bucket, cap)]

\* variant: the Next Day category is appended before the Same Day category
Recommendations_NextDayFirst(s) ==
    (IF NextDay(s) # <<>>
     THEN <<Category("Next Day Options", "MEDIUM", NextDay(s), NextDayCap)>>
     ELSE <<>>)
    \o
    (IF SameDay(s) # <<>>
     THEN <<Category("Same Day Alternatives", "HIGH", SameDay(s), SameDayCap)>>
     ELSE <<>>)
    \o
    (IF OtherDays(s) # <<>>
     THEN <<Category("Alternative Dates", "LOW", OtherDays(s), OtherDaysCap)>>
     ELSE <<>>)

\* recommendations: one category per non-empty bucket, appended in this order
Recommendations(s) ==
    (IF SameDay(s) # <<>>
     THEN <<Category("Same Day Alternatives", "HIGH", SameDay(s), SameDayCap)>>
     ELSE <<>>)
    \o
    (IF NextDay(s) # <<>>
     THEN <<Category("Next Day Options", "MEDIUM", NextDay(s), NextDayCap)>>
     ELSE <<>>)
    \o
    (IF OtherDays(s) # <<>>
     THEN <<Category("Alternative Dates", "LOW", OtherDays(s), OtherDaysCap)>>
     ELSE <<>>)

\* all_prices = [float(f['price']['total']) for f in alternatives]
AllPrices(s) == { ToFloat(s[i].total) : i \in 1..Len(s) }

MinOf(S) == CHOOSE x \in S : \A y \in S : x <= y
MaxOf(S) == CHOOSE x \in S : \A y \in S : y <= x

\* variant: min and max are swapped
PriceRange_Swapped(s) ==
    [min |-> MaxOf(AllPrices(s)), max |-> MinOf(AllPrices(s)), currency |-> "USD"]

\* variant: the range is taken over the search's whole sorted aggregate
PriceRange_Aggregate(s) ==
    [min |-> MinOf(AllPrices(all_alternatives)),
     max |-> MaxOf(AllPrices(all_alternatives)), currency |-> "USD"]

PriceRange(s) ==
    [min |-> MinOf(AllPrices(s)), max |-> MaxOf(AllPrices(s)), currency |-> "USD"]

\* variant: only the flights that fell into a bucket are counted
TotalAlternatives_Bucketed(s) == Len(SameDay(s)) + Len(NextDay(s)) + Len(OtherDays(s))

\* len(alternatives), used for the message and for total_alternatives
TotalAlternatives(s) == Len(s)

\* variant: body.get('disruption_reason') with no default
DisruptionReason_NoDefault(ev) == ev.disruption_reason

\* body.get('disruption_reason', 'cancellation')
DisruptionReason(ev) ==
    IF ev.disruption_reason = Absent THEN "cancellation" ELSE ev.disruption_reason

NoAlternativesResult ==
    [success |-> FALSE, message |-> "Unable to find alternative flights",
     original_flight |-> event.original_flight,
     disruption_reason |-> DisruptionReason(event),
     recommendations |-> <<>>]

SuccessResult(s) ==
    [success |-> TRUE,
     original_flight |-> event.original_flight,
     original_date |-> event.original_date,
     disruption_reason |-> DisruptionReason(event),
     message |-> <<"Found", TotalAlternatives(s), "alternative flights">>,
     total_alternatives |-> TotalAlternatives(s),
     price_range |-> PriceRange(s),
     recommendations |-> Recommendations(s)]

\* the body of analyze_disruption after the search has returned
Analyze ==
    /\ pc = "returned"
    /\ caller = "analyze"
    /\ result' = IF alternatives = <<>> THEN NoAlternativesResult
                 ELSE SuccessResult(alternatives)
    /\ pc' = "done"
    /\ UNCHANGED <<event, token_calls, response, caller, original_date, days_range,
                   day_offset, all_alternatives, queries, replies, raised,
                   alternatives>>
    /\ UNCHANGED beyondScan

\* lambda_handler returns: 200 if result.get("success") else 500
LambdaHandlerResponds ==
    /\ pc = "done"
    /\ response' = [statusCode |-> IF result.success THEN 200 ELSE 500,
                    body |-> result]
    /\ pc' = "responded"
    /\ UNCHANGED <<event, token_calls, caller, original_date, days_range, day_offset,
                   all_alternatives, queries, replies, raised, alternatives, result>>
    /\ UNCHANGED beyondScan

\* None in place of an access token; tokens are numbered from 1
NoToken == 0

\* None in place of a datetime
NoTime == -1

\* _secrets_cache and _token_cache as the module is loaded
ContainerInit ==
    /\ now = 0
    /\ token_cache = [access_token |-> NoToken, expiry |-> NoTime]
    /\ secrets_cache = [amadeus_credentials |-> FALSE, fetched_at |-> NoTime]
    /\ accepted = {}
    /\ access_token = NoToken
    /\ token_requests = 0
    /\ invocations = 1

\* offer_price: _secrets_cache = {} as the module is loaded
OfferInit ==
    /\ offer_now = 0
    /\ offer_secrets_cache = [present |-> FALSE, cached_time |-> NoTime]
    /\ offer_last = [outcome |-> "none", age |-> NoTime]

\* a falsy bearer token: None or ''
NoBearer == ""

\* _agent_instance = None
NoAgent == [serial |-> 0, bearer_token |-> NoBearer]

\* autorescue_agent.py before its module body ran
AgentInit ==
    /\ ACCESS_TOKEN = "unread"
    /\ agent_instance = NoAgent
    /\ agent_constructions = 0
    /\ agent_entries = 0
    /\ agent_last = [outcome |-> "none", bearer_token |-> NoBearer, serial |-> 0]

\* "agent_runtime_config" not in st.session_state
AbsentConfig == [key |-> "absent", session_id |-> 0]

\* st.session_state.agent_runtime_config = None
NoneConfig == [key |-> "None", session_id |-> 0]

\* a browser session before the script ran: app.py's defaults
HomeInit ==
    /\ session_state = [authenticated |-> FALSE, username |-> "None",
                        login_attempts |-> 0,
                        agent_runtime_config |-> AbsentConfig]
    /\ home_page = [page |-> "unopened", arn |-> FALSE]
    /\ home_uuids = 0

Init == ScanInit /\ ContainerInit /\ OfferInit /\ AgentInit /\ HomeInit

Next ==
    \/ LambdaHandlerRaises
    \/ LambdaHandlerRejects
    \/ LambdaHandlerAccepts
    \/ AnalyzeCall
    \/ SearchCall
    \/ GetTokenOk
    \/ GetTokenFails
    \/ ParseDate
    \/ DayQueryNetworkError
    \/ DayQueryNon200
    \/ DayQueryNotJson
    \/ DayQueryOk
    \/ SortAndReturn
    \/ Analyze
    \/ LambdaHandlerResponds

Spec == Init /\ [][Next]_vars

---------------------------------------------------------------------------
(* The container: _get_amadeus_credentials and _get_amadeus_token with their *)
(* module-level caches, kept from one invocation to the next; the provider  *)
(* may stop accepting a token, or never answer.                             *)

\* number of invocations one container serves
MaxInvocations == 3

\* elapsed.total_seconds() < 3600
SecretsTtl == 3600

\* timedelta(seconds=1500)
TokenTtl == 1500

\* seconds between two invocations of the container
ReuseDelays == {TokenTtl - 1, TokenTtl}

\* variant: the cached token is still returned at its expiry, now <= expiry
TokenCacheValid_Inclusive ==
    /\ token_cache.access_token # NoToken
    /\ token_cache.expiry # NoTime
    /\ now <= token_cache.expiry

\* _token_cache['access_token'] and _token_cache['expiry'] and now < expiry
TokenCacheValid ==
    /\ token_cache.access_token # NoToken
    /\ token_cache.expiry # NoTime
    /\ now < token_cache.expiry

\* credentials cached and fetched less than an hour ago
SecretsCacheValid ==
    /\ secrets_cache.amadeus_credentials
    /\ secrets_cache.fetched_at # NoTime
    /\ now - secrets_cache.fetched_at < SecretsTtl

\* _secrets_cache after _get_amadeus_credentials has returned
SecretsCacheAfterFetch ==
    IF SecretsCacheValid THEN secrets_cache
    ELSE [amadeus_credentials |-> TRUE, fetched_at |-> now]

\* the token a successful token request returns
NewToken == token_requests + 1

\* _get_amadeus_token returns the cached token
GetAmadeusTokenCached ==
    /\ pc = "token"
    /\ TokenCacheValid
    /\ token_calls' = token_calls + 1
    /\ access_token' = token_cache.access_token
    /\ pc' = "parse"
    /\ UNCHANGED <<event, response, caller, original_date, days_range, day_offset,
                   all_alternatives, queries, replies, raised, alternatives, result>>
    /\ UNCHANGED <<now, token_cache, secrets_cache, accepted, token_requests,
                   invocations>>
    /\ UNCHANGED beyondContainer

\* _get_amadeus_token requests a new token and caches it for 1500 s
GetAmadeusTokenRefreshed ==
    /\ pc = "token"
    /\ ~TokenCacheValid
    /\ token_calls' = token_calls + 1
    /\ secrets_cache' = SecretsCacheAfterFetch
    /\ token_requests' = token_requests + 1
    /\ accepted' = accepted \cup {NewToken}
    /\ token_cache' = [access_token |-> NewToken, expiry |-> now + TokenTtl]
    /\ access_token' = NewToken
    /\ pc' = "parse"
    /\ UNCHANGED <<event, response, caller, original_date, days_range, day_offset,
                   all_alternatives, queries, replies, raised, alternatives, result>>
    /\ UNCHANGED <<now, invocations>>
    /\ UNCHANGED beyondContainer

\* _get_amadeus_credentials raises (Secrets Manager): no token request is sent
GetAmadeusCredentialsFail ==
    /\ pc = "token"
    /\ ~TokenCacheValid
    /\ ~SecretsCacheValid
    /\ token_calls' = token_calls + 1
    /\ SearchAborts("token")
    /\ UNCHANGED <<event, response, caller, original_date, days_range, day_offset,
                   all_alternatives, queries, replies, result>>
    /\ UNCHANGED containerVars
    /\ UNCHANGED beyondContainer

\* variant: a failed token request clears the token cache
GetAmadeusTokenRequestFails_ClearsCache ==
    /\ pc = "token"
    /\ ~TokenCacheValid
    /\ token_calls' = token_calls + 1
    /\ secrets_cache' = SecretsCacheAfterFetch
    /\ token_requests' = token_requests + 1
    /\ token_cache' = [access_token |-> NoToken, expiry |-> NoTime]
    /\ SearchAborts("token")
    /\ UNCHANGED <<event, response, caller, original_date, days_range, day_offset,
                   all_alternatives, queries, replies, result>>
    /\ UNCHANGED <<now, accepted, access_token, invocations>>
    /\ UNCHANGED beyondContainer

\* the token request is sent and requests.post, raise_for_status, json() or
\* the 'access_token' key raises: the cache is not written
GetAmadeusTokenRequestFails ==
    /\ pc = "token"
    /\ ~TokenCacheValid
    /\ token_calls' = token_calls + 1
    /\ secrets_cache' = SecretsCacheAfterFetch
    /\ token_requests' = token_requests + 1
    /\ SearchAborts("token")
    /\ UNCHANGED <<event, response, caller, original_date, days_range, day_offset,
                   all_alternatives, queries, replies, result>>
    /\ UNCHANGED <<now, token_cache, accepted, access_token, invocations>>
    /\ UNCHANGED beyondContainer

\* the token request is sent and never answered: requests.post has no timeout
GetAmadeusTokenRequestHangs ==
    /\ pc = "token"
    /\ ~TokenCacheValid
    /\ token_calls' = token_calls + 1
    /\ secrets_cache' = SecretsCacheAfterFetch
    /\ token_requests' = token_requests + 1
    /\ pc' = "blocked"
    /\ UNCHANGED <<event, response, caller, original_date, days_range, day_offset,
                   all_alternatives, queries, replies, raised, alternatives, result>>
    /\ UNCHANGED <<now, token_cache, accepted, access_token, invocations>>
    /\ UNCHANGED beyondContainer

\* the provider accepts the bearer token of the scan's requests
TokenAccepted == access_token \in accepted

\* the provider's reply to a request whose bearer token it does not accept
UnauthorizedReply == HttpReply(401, <<>>)

\* the provider's reply to a request whose bearer token it accepts
AuthorizedReply == HttpReply(200, BodyThree)

\* a day-query with an accepted token, answered with offers
DayQueryAuthorized ==
    /\ TokenAccepted
    /\ DayQueryOk
    /\ replies' = Append(replies, AuthorizedReply)

\* a day-query with a token the provider no longer accepts: status 401, which
\* is not 200: nothing is read, next iteration
DayQueryUnauthorized ==
    /\ ~TokenAccepted
    /\ Issue(UnauthorizedReply)
    /\ day_offset' = day_offset + 1
    /\ UNCHANGED <<pc, caller, original_date, days_range, all_alternatives, raised,
                   alternatives, result>>
    /\ UNCHANGED <<event, token_calls, response>>
    /\ UNCHANGED containerVars
    /\ UNCHANGED beyondContainer

\* a day-query the provider never answers: requests.get has no timeout and
\* does not return
DayQueryHangs ==
    /\ pc = "loop"
    /\ day_offset <= days_range
    /\ queries' = Append(queries, day_offset)
    /\ pc' = "blocked"
    /\ UNCHANGED <<event, token_calls, response, caller, original_date, days_range,
                   day_offset, all_alternatives, replies, raised, alternatives,
                   result>>
    /\ UNCHANGED containerVars
    /\ UNCHANGED beyondContainer

\* the provider stops accepting the cached token, or the token in use (it
\* expired on the provider's side or was revoked), before or during a scan
ProviderInvalidatesToken ==
    /\ pc \in {"idle", "loop"}
    /\ \E t \in accepted \cap {token_cache.access_token, access_token} :
          accepted' = accepted \ {t}
    /\ UNCHANGED scanVars
    /\ UNCHANGED <<now, token_cache, secrets_cache, access_token, token_requests,
                   invocations>>
    /\ UNCHANGED beyondContainer

\* the invocation is over: lambda_handler has answered, or a direct call of
\* the search has returned
InvocationOver ==
    \/ pc = "responded"
    \/ pc = "returned" /\ caller = "direct"

\* the container serves its next invocation some time later: the locals are
\* fresh, the module-level caches are kept
ContainerReused ==
    /\ InvocationOver
    /\ invocations < MaxInvocations
    /\ invocations' = invocations + 1
    /\ \E delay \in ReuseDelays : now' = now + delay
    /\ pc' = "idle"
    /\ event' = NoEvent
    /\ token_calls' = 0
    /\ response' = NoResponse
    /\ caller' = "none"
    /\ original_date' = <<>>
    /\ days_range' = 0
    /\ day_offset' = 0
    /\ all_alternatives' = <<>>
    /\ queries' = <<>>
    /\ replies' = <<>>
    /\ raised' = "none"
    /\ alternatives' = <<>>
    /\ result' = NoResult
    /\ access_token' = NoToken
    /\ UNCHANGED <<token_cache, secrets_cache, accepted, token_requests>>
    /\ UNCHANGED beyondContainer

ContainerNext ==
    \/ LambdaHandlerRaises
    \/ LambdaHandlerRejects
    \/ LambdaHandlerAccepts
    \/ AnalyzeCall
    \/ SearchCall
    \/ GetAmadeusTokenCached
    \/ GetAmadeusTokenRefreshed
    \/ GetAmadeusCredentialsFail
    \/ GetAmadeusTokenRequestFails
    \/ GetAmadeusTokenRequestHangs
    \/ ParseDate
    \/ DayQueryAuthorized
    \/ DayQueryUnauthorized
    \/ DayQueryNetworkError
    \/ DayQueryHangs
    \/ SortAndReturn
    \/ Analyze
    \/ LambdaHandlerResponds
    \/ ProviderInvalidatesToken
    \/ ContainerReused

ContainerSpec == Init /\ [][ContainerNext]_vars

---------------------------------------------------------------------------
(* offer_price/lambda_function.py: get_amadeus_credentials *)

\* days the offer-price container is followed for
MaxOfferDays == 1

\* (current_time - cached_time).seconds < 3600
OfferSecretsTtl == 3600

\* seconds in a day: timedelta keeps days and seconds apart
SecondsPerDay == 86400

\* seconds that pass between two calls
OfferDelays == {1800, 3600, SecondsPerDay}

\* timedelta.seconds: the seconds within the last day of the difference,
\* 0..86399, the whole days left out
TimedeltaSeconds(delta) == delta % SecondsPerDay

\* cache_key in _secrets_cache and (current_time - cached_time).seconds < 3600
OfferCacheHit ==
    /\ offer_secrets_cache.present
    /\ TimedeltaSeconds(offer_now - offer_secrets_cache.cached_time) < OfferSecretsTtl

\* age of the cached entry at this call, NoTime when there is none
OfferEntryAge ==
    IF offer_secrets_cache.present THEN offer_now - offer_secrets_cache.cached_time
    ELSE NoTime

\* time passes in the offer-price container
OfferClockAdvances ==
    /\ \E delay \in OfferDelays :
          /\ offer_now + delay <= MaxOfferDays * SecondsPerDay + 2 * OfferSecretsTtl
          /\ offer_now' = offer_now + delay
    /\ UNCHANGED <<offer_secrets_cache, offer_last>>
    /\ UNCHANGED beyondOffer

\* get_amadeus_credentials returns the cached entry
GetCredentialsCached ==
    /\ OfferCacheHit
    /\ offer_last' = [outcome |-> "cached", age |-> OfferEntryAge]
    /\ UNCHANGED <<offer_now, offer_secrets_cache>>
    /\ UNCHANGED beyondOffer

\* get_amadeus_credentials fetches from Secrets Manager and caches the entry
GetCredentialsFetched ==
    /\ ~OfferCacheHit
    /\ offer_secrets_cache' = [present |-> TRUE, cached_time |-> offer_now]
    /\ offer_last' = [outcome |-> "fetched", age |-> OfferEntryAge]
    /\ UNCHANGED offer_now
    /\ UNCHANGED beyondOffer

\* get_amadeus_credentials: Secrets Manager raises, the exception is re-raised
GetCredentialsRaises ==
    /\ ~OfferCacheHit
    /\ offer_last' = [outcome |-> "raised", age |-> OfferEntryAge]
    /\ UNCHANGED <<offer_now, offer_secrets_cache>>
    /\ UNCHANGED beyondOffer

OfferNext ==
    \/ OfferClockAdvances
    \/ GetCredentialsCached
    \/ GetCredentialsFetched
    \/ GetCredentialsRaises

OfferSpec == Init /\ [][OfferNext]_vars

---------------------------------------------------------------------------
(* agent_runtime/autorescue_agent.py: invoke and get_agent_instance *)

\* entrypoint invocations followed in one process
MaxAgentInvocations == 4

\* payload.get("prompt") and payload.get("bearer_token")
Payloads == [prompt : {"", "rebook my flight"},
             bearer_token : {NoBearer, "token-a", "token-b"}]

\* what fetch_oauth_token returns when Cognito answers
CognitoToken == "token-cognito"

AgentLoaded == ACCESS_TOKEN # "unread"

\* the module body: ACCESS_TOKEN = os.getenv("ACCESS_TOKEN"), _agent_instance = None
AgentModuleLoaded ==
    /\ ~AgentLoaded
    /\ ACCESS_TOKEN' \in {NoBearer, "token-env"}
    /\ UNCHANGED <<agent_instance, agent_constructions, agent_entries, agent_last>>
    /\ UNCHANGED beyondAgent

\* payload.get("bearer_token") or ACCESS_TOKEN
ProvidedToken(payload) ==
    IF payload.bearer_token # NoBearer THEN payload.bearer_token ELSE ACCESS_TOKEN

\* the bearer token handed to get_agent_instance
BearerToken(payload) ==
    IF ProvidedToken(payload) # NoBearer THEN ProvidedToken(payload) ELSE CognitoToken

\* variant: an agent per bearer token
MustCreateAgent_PerToken(bearer_token) ==
    agent_instance = NoAgent \/ agent_instance.bearer_token # bearer_token

\* get_agent_instance: if _agent_instance is None
MustCreateAgent(bearer_token) == agent_instance = NoAgent

Entered ==
    /\ AgentLoaded
    /\ agent_entries < MaxAgentInvocations
    /\ agent_entries' = agent_entries + 1

\* invoke: no prompt in the payload
InvokeMissingPrompt ==
    /\ Entered
    /\ \E payload \in Payloads :
          /\ payload.prompt = ""
          /\ agent_last' = [outcome |-> "missing_prompt",
                            bearer_token |-> NoBearer, serial |-> 0]
    /\ UNCHANGED <<ACCESS_TOKEN, agent_instance, agent_constructions>>
    /\ UNCHANGED beyondAgent

\* invoke: no bearer token given and fetch_oauth_token raises
InvokeTokenFetchFails ==
    /\ Entered
    /\ \E payload \in Payloads :
          /\ payload.prompt # ""
          /\ ProvidedToken(payload) = NoBearer
          /\ agent_last' = [outcome |-> "token_error",
                            bearer_token |-> NoBearer, serial |-> 0]
    /\ UNCHANGED <<ACCESS_TOKEN, agent_instance, agent_constructions>>
    /\ UNCHANGED beyondAgent

\* invoke: get_agent_instance constructs the agent, which answers
InvokeCreatesAgent ==
    /\ Entered
    /\ \E payload \in Payloads :
          /\ payload.prompt # ""
          /\ MustCreateAgent(BearerToken(payload))
          /\ agent_constructions' = agent_constructions + 1
          /\ agent_instance' = [serial |-> agent_constructions + 1,
                                bearer_token |-> BearerToken(payload)]
          /\ agent_last' = [outcome |-> "response",
                            bearer_token |-> BearerToken(payload),
                            serial |-> agent_constructions + 1]
    /\ UNCHANGED ACCESS_TOKEN
    /\ UNCHANGED beyondAgent

\* invoke: AutoRescueAgent(...) raises inside get_agent_instance, before the
\* assignment to _agent_instance; the entrypoint's except answers
InvokeConstructionFails ==
    /\ Entered
    /\ \E payload \in Payloads :
          /\ payload.prompt # ""
          /\ MustCreateAgent(BearerToken(payload))
          /\ agent_constructions' = agent_constructions + 1
          /\ agent_last' = [outcome |-> "entrypoint_error",
                            bearer_token |-> BearerToken(payload), serial |-> 0]
    /\ UNCHANGED <<ACCESS_TOKEN, agent_instance>>
    /\ UNCHANGED beyondAgent

\* invoke: get_agent_instance returns the agent it has, which answers
InvokeReusesAgent ==
    /\ Entered
    /\ \E payload \in Payloads :
          /\ payload.prompt # ""
          /\ ~MustCreateAgent(BearerToken(payload))
          /\ agent_last' = [outcome |-> "response",
                            bearer_token |-> BearerToken(payload),
                            serial |-> agent_instance.serial]
    /\ UNCHANGED <<ACCESS_TOKEN, agent_instance, agent_constructions>>
    /\ UNCHANGED beyondAgent

AgentNext ==
    \/ AgentModuleLoaded
    \/ InvokeMissingPrompt
    \/ InvokeTokenFetchFails
    \/ InvokeCreatesAgent
    \/ InvokeConstructionFails
    \/ InvokeReusesAgent

AgentSpec == Init /\ [][AgentNext]_vars

---------------------------------------------------------------------------
(* app.py, src/login.py, src/home.py: one browser session *)

\* failed logins followed
MaxLoginAttempts == 3

\* session ids (uuid.uuid4() values) followed
MaxUuids == 3

\* the accounts verify_credentials accepts
Usernames == {"alice", "bob"}

\* the dict stored at home.py lines 97-102, told apart by its session_id
RuntimeConfig(session_id) == [key |-> "set", session_id |-> session_id]

\* not config: the value is None
NoConfig(config) == config.key # "set"

\* init_agent_runtime: the session state it leaves and the value it returns,
\* arn telling whether AGENT_RUNTIME_ARN is found (environment or Secrets
\* Manager) in this run
InitAgentRuntime(ss, arn) ==
    IF ss.agent_runtime_config.key = "absent"
    THEN IF arn
         THEN [session_state |->
                  [ss EXCEPT !.agent_runtime_config = RuntimeConfig(home_uuids + 1)],
               config |-> RuntimeConfig(home_uuids + 1),
               uuids |-> home_uuids + 1]
         ELSE [session_state |-> ss, config |-> NoneConfig, uuids |-> home_uuids]
    ELSE [session_state |-> ss, config |-> ss.agent_runtime_config,
          uuids |-> home_uuids]

\* app.py main(): one run of the script from session state ss
Main(ss, arn) ==
    IF ~ss.authenticated
    THEN /\ session_state' = ss
         /\ home_page' = [page |-> "login", arn |-> arn]
         /\ home_uuids' = home_uuids
    ELSE LET init == InitAgentRuntime(ss, arn)
         IN  /\ session_state' = init.session_state
             /\ home_page' = [page |-> IF NoConfig(init.config) THEN "init_error"
                                       ELSE "home",
                              arn |-> arn]
             /\ home_uuids' = init.uuids

\* the browser opens the application: the first run of the script
BrowserOpens ==
    /\ home_page.page = "unopened"
    /\ \E arn \in BOOLEAN : Main(session_state, arn)
    /\ UNCHANGED beyondHome

\* show_login_page: verify_credentials accepts, st.rerun()
LoginSucceeds ==
    /\ home_page.page = "login"
    /\ \E arn \in BOOLEAN, username \in Usernames :
          Main([session_state EXCEPT !.authenticated = TRUE,
                                     !.username = username], arn)
    /\ UNCHANGED beyondHome

\* show_login_page: verify_credentials refuses
LoginFails ==
    /\ home_page.page = "login"
    /\ session_state.login_attempts < MaxLoginAttempts
    /\ session_state' = [session_state EXCEPT !.login_attempts = @ + 1]
    /\ UNCHANGED <<home_page, home_uuids>>
    /\ UNCHANGED beyondHome

\* the authenticated user's page is run again (a chat message, a reload of
\* the same session)
HomePageRuns ==
    /\ home_page.page \in {"home", "init_error"}
    /\ \E arn \in BOOLEAN : Main(session_state, arn)
    /\ UNCHANGED beyondHome

\* the Logout button of the sidebar, st.rerun()
Logout ==
    /\ home_page.page = "home"
    /\ \E arn \in BOOLEAN :
          Main([session_state EXCEPT !.authenticated = FALSE,
                                     !.username = "None",
                                     !.agent_runtime_config = NoneConfig], arn)
    /\ UNCHANGED beyondHome

\* the Clear Chat button of the sidebar: a new session id, st.rerun()
ClearChat ==
    /\ home_page.page = "home"
    /\ home_uuids < MaxUuids
    /\ session_state' = [session_state EXCEPT
          !.agent_runtime_config = RuntimeConfig(home_uuids + 1)]
    /\ home_uuids' = home_uuids + 1
    /\ \E arn \in BOOLEAN : home_page' = [page |-> "home", arn |-> arn]
    /\ UNCHANGED beyondHome

HomeNext ==
    \/ BrowserOpens
    \/ LoginSucceeds
    \/ LoginFails
    \/ HomePageRuns
    \/ Logout
    \/ ClearChat

HomeSpec == Init /\ [][HomeNext]_vars

---------------------------------------------------------------------------
(* Vocabulary of the properties *)

\* the search has returned to its caller
SearchReturned ==
    \/ pc \in {"returned", "done"}
    \/ pc = "responded" /\ caller = "analyze"

\* original_date shifted by n days, stepping through the calendar one day at a time
Tomorrow(date) ==
    IF date[3] < DaysInMonth(date[1], date[2]) THEN <<date[1], date[2], date[3] + 1>>
    ELSE IF date[2] < 12 THEN <<date[1], date[2] + 1, 1>>
    ELSE <<date[1] + 1, 1, 1>>

Yesterday(date) ==
    IF date[3] > 1 THEN <<date[1], date[2], date[3] - 1>>
    ELSE IF date[2] > 1 THEN <<date[1], date[2] - 1, DaysInMonth(date[1], date[2] - 1)>>
    ELSE <<date[1] - 1, 12, 31>>

RECURSIVE DaysLater(_, _)
DaysLater(date, n) ==
    IF n = 0 THEN date
    ELSE IF n > 0 THEN DaysLater(Tomorrow(date), n - 1)
    ELSE DaysLater(Yesterday(date), n + 1)

\* the scan reached its return statement without entering the except clause
ScanCompleted == SearchReturned /\ raised = "none"

IsNon200(reply) == reply.kind = "http" /\ reply.status # 200

\* a day-query that failed: network error, or a body that cannot be read
IsFailedQuery(reply) ==
    \/ reply.kind \in {"neterror", "notjson"}
    \/ reply.kind = "http" /\ reply.status = 200
       /\ \E i \in 1..Min(3, Len(reply.data)) : ~reply.data[i].complete

\* the candidates the j-th reply yields: the first three offers of a 200 reply
DayCandidates(j) ==
    IF replies[j].kind = "http" /\ replies[j].status = 200
    THEN [i \in 1..Min(3, Len(replies[j].data)) |->
            [date |-> DaysLater(original_date, queries[j]),
             date_offset_days |-> queries[j],
             total |-> replies[j].data[i].total,
             duration |-> replies[j].data[i].duration]]
    ELSE <<>>

\* the aggregate of the candidates of the first n replies, in collection order
RECURSIVE CollectedUpTo(_)
CollectedUpTo(n) ==
    IF n = 0 THEN <<>> ELSE CollectedUpTo(n - 1) \o DayCandidates(n)

Collected == CollectedUpTo(Len(replies))

Range(s) == { s[i] : i \in 1..Len(s) }

Price(f) == ToFloat(f.total)

\* f ranks strictly before g in the order (|offset|, price)
RanksBefore(f, g) ==
    \/ Abs(f.date_offset_days) < Abs(g.date_offset_days)
    \/ /\ Abs(f.date_offset_days) = Abs(g.date_offset_days)
       /\ Price(f) < Price(g)

\* every element of s is followed only by elements that do not rank before it
IsRanked(s) == \A i \in 1..(Len(s) - 1) : ~RanksBefore(s[i + 1], s[i])

---------------------------------------------------------------------------
(* C1..C5: the scan, the sort and the top-10 cut *)

\* C1: once the search has returned, a day-query that failed with a network
\* error or an unreadable body has not aborted the scan: all 2*days_range+1
\* offsets were queried, and if any other offset yielded a candidate the
\* returned list is not empty.
C1_FailedDayDoesNotAbort ==
    SearchReturned =>
        \A i \in 1..Len(replies) :
            IsFailedQuery(replies[i]) =>
                /\ Len(queries) = 2 * days_range + 1
                /\ (\E j \in 1..Len(replies) : j # i /\ DayCandidates(j) # <<>>)
                      => alternatives # <<>>

\* C2: a day-query answered with a non-200 status adds no candidate for its
\* offset, is followed by the query of the next offset (it never enters the
\* except clause), and every candidate of the other offsets' 200 replies is
\* still in the aggregate.
C2_Non200DaySkipped ==
    \A i \in 1..Len(replies) :
        IsNon200(replies[i]) =>
            /\ \A k \in 1..Len(all_alternatives) :
                  all_alternatives[k].date_offset_days # queries[i]
            /\ i < Len(replies) => queries[i + 1] = queries[i] + 1
            /\ i = Len(replies) =>
                  /\ raised # "query"
                  /\ pc = "loop" => day_offset = queries[i] + 1
                  /\ pc # "loop" => queries[i] = days_range
            /\ raised \in {"none", "sort"} =>
                  \A j \in 1..Len(replies) :
                      Range(DayCandidates(j)) \subseteq Range(all_alternatives)

\* a completed scan with a non-200 day between two days that yielded candidates
C2_Witness ==
    /\ pc = "returned"
    /\ raised = "none"
    /\ \E i \in 2..(Len(replies) - 1) :
          /\ IsNon200(replies[i])
          /\ DayCandidates(i - 1) # <<>>
          /\ DayCandidates(i + 1) # <<>>
          /\ Range(DayCandidates(i - 1)) \cap Range(alternatives) # {}
          /\ Range(DayCandidates(i + 1)) \cap Range(alternatives) # {}

\* C3: for a request whose date parses and whose token was obtained, the
\* search has, when it returns, issued exactly one query per offset of
\* -days_range..days_range, in that order, whatever the replies were.
C3_OneQueryPerOffset ==
    (SearchReturned /\ StrptimeOk(original_date) /\ raised # "token") =>
        queries = [i \in 1..(2 * days_range + 1) |-> i - days_range - 1]

\* C4: the returned (truncated) list is sorted: adjacent elements have
\* non-decreasing |offset| and, at equal |offset|, non-decreasing price.
C4_ReturnedListSorted ==
    SearchReturned =>
        \A i \in 1..(Len(alternatives) - 1) :
            \/ Abs(alternatives[i].date_offset_days)
                  < Abs(alternatives[i + 1].date_offset_days)
            \/ /\ Abs(alternatives[i].date_offset_days)
                     = Abs(alternatives[i + 1].date_offset_days)
               /\ Price(alternatives[i]) <= Price(alternatives[i + 1])

\* a truncated list of ten over several |offset| values and prices
C4_Witness ==
    /\ pc = "returned"
    /\ Len(alternatives) = TopN
    /\ Len(all_alternatives) > TopN
    /\ \E i, j \in 1..TopN :
          /\ alternatives[i].date_offset_days = -alternatives[j].date_offset_days
          /\ alternatives[i].date_offset_days > 0
    /\ \E i \in 1..(TopN - 1) :
          /\ Abs(alternatives[i].date_offset_days)
                = Abs(alternatives[i + 1].date_offset_days)
          /\ Price(alternatives[i]) < Price(alternatives[i + 1])

\* C5: when the scan completes, the returned list has min(10, N) elements,
\* N the number of candidates collected; they are candidates collected, in
\* rank order; no collected candidate left out ranks strictly before a
\* returned one; and if a candidate of offset 0 was collected, the first
\* returned element is a cheapest candidate of offset 0.
C5_TopTenOfRankedAggregate ==
    ScanCompleted =>
        LET collected == Range(Collected)
        IN  /\ Len(alternatives) = Min(10, Len(Collected))
            /\ Cardinality(Range(alternatives)) = Len(alternatives)
            /\ Range(alternatives) \subseteq collected
            /\ IsRanked(alternatives)
            /\ \A g \in collected \ Range(alternatives) :
                  \A f \in Range(alternatives) : ~RanksBefore(g, f)
            /\ (\E g \in collected : g.date_offset_days = 0) =>
                  /\ alternatives[1].date_offset_days = 0
                  /\ \A g \in collected :
                        g.date_offset_days = 0 => Price(alternatives[1]) <= Price(g)

\* a completed scan of more than ten candidates, one of them at offset 0,
\* where a candidate was cut
C5_Witness ==
    /\ ScanCompleted
    /\ Len(Collected) > 10
    /\ Len(alternatives) = 10
    /\ alternatives[1].date_offset_days = 0
    /\ \E g \in Range(Collected) \ Range(alternatives) : g.date_offset_days = 0 - 2

---------------------------------------------------------------------------
(* C6..C10: analyze_disruption's totals, categories and price range *)

Succeeded == pc \in {"done", "responded"} /\ result.success

\* the flights listed under the category of that name, <<>> if it is absent
FlightsOf(name) ==
    LET hits == SelectSeq(result.recommendations, LAMBDA c : c.category = name)
    IN  IF hits = <<>> THEN <<>> ELSE hits[1].flights

WithOffsetZero(s) == SelectSeq(s, LAMBDA f : f.date_offset_days = 0)
WithOffsetOne(s)  == SelectSeq(s, LAMBDA f : f.date_offset_days = 1)
WithOffsetFar(s)  == SelectSeq(s, LAMBDA f : Abs(f.date_offset_days) > 1)

\* C6 as stated: in a successful result total_alternatives is the number of
\* candidates collected over all offsets, before the top-10 cut.
C6_TotalCountsFullAggregate ==
    Succeeded => result.total_alternatives = Len(Collected)

\* C6 amended: in a successful result total_alternatives is the length of the
\* list the search returned, after the top-10 cut: min(10, N) for N collected.
C6_TotalCountsReturnedList ==
    Succeeded =>
        /\ result.total_alternatives = Len(alternatives)
        /\ result.total_alternatives = Min(10, Len(Collected))

\* seven days of three offers each: 21 collected, 10 reported
C6_Witness ==
    /\ Succeeded
    /\ Len(Collected) = 21
    /\ result.total_alternatives = 10

\* C7 as stated: each category lists the first 3 (3, 4) candidates of offset
\* 0 (offset 1, |offset| > 1) of the full sorted candidate list.
C7_CategoriesFromFullList ==
    Succeeded =>
        /\ FlightsOf("Same Day Alternatives") = Take(WithOffsetZero(all_alternatives), 3)
        /\ FlightsOf("Next Day Options") = Take(WithOffsetOne(all_alternatives), 3)
        /\ FlightsOf("Alternative Dates") = Take(WithOffsetFar(all_alternatives), 4)

\* C7 amended: the categories are taken from the list the search returned,
\* after the top-10 cut.  Same Day and Next Day are still the first 3 of
\* offset 0 and of offset 1 of the full sorted list; Alternative Dates is the
\* first 4 with |offset| > 1 among the ten that survived the cut.
C7_CategoriesFromReturnedList ==
    Succeeded =>
        /\ FlightsOf("Same Day Alternatives") = Take(WithOffsetZero(all_alternatives), 3)
        /\ FlightsOf("Next Day Options") = Take(WithOffsetOne(all_alternatives), 3)
        /\ FlightsOf("Alternative Dates") = Take(WithOffsetFar(alternatives), 4)

\* far-offset candidates before and after the original date, fewer of them
\* within the top ten than the full list would have offered
C7_Witness ==
    /\ Succeeded
    /\ Len(WithOffsetFar(all_alternatives)) >= 4
    /\ Len(FlightsOf("Alternative Dates")) \in 1..3
    /\ FlightsOf("Same Day Alternatives") # <<>>
    /\ FlightsOf("Next Day Options") # <<>>

\* C8: every candidate of the list being categorized lies in exactly one of
\* the buckets same_day, next_day, other_days.
C8_BucketsPartition ==
    Succeeded =>
        \A f \in Range(alternatives) :
            Cardinality({ b \in {"same_day", "next_day", "other_days"} :
                            f \in Range(CASE b = "same_day" -> SameDay(alternatives)
                                          [] b = "next_day" -> NextDay(alternatives)
                                          [] OTHER -> OtherDays(alternatives)) }) = 1

\* C9: no category lists more flights than its cap: 3, 3 and 4.
C9_CategoryCaps ==
    pc = "done" =>
        \A k \in 1..Len(result.recommendations) :
            LET c == result.recommendations[k]
            IN  Len(c.flights) <= (IF c.category = "Alternative Dates" THEN 4 ELSE 3)

\* a bucket larger than its cap, listed cut to the cap
C9_Witness ==
    /\ Succeeded
    /\ \E k \in 1..Len(result.recommendations) :
          /\ result.recommendations[k].category = "Alternative Dates"
          /\ result.recommendations[k].count > 4
          /\ Len(result.recommendations[k].flights) = 4
    /\ Len(FlightsOf("Same Day Alternatives")) = 3

\* C10 as stated: price_range.min and .max are the least and the greatest
\* price over all candidates collected, including those the top-10 cut drops.
C10_RangeOverFullAggregate ==
    Succeeded =>
        /\ \A f \in Range(Collected) :
              result.price_range.min <= Price(f) /\ Price(f) <= result.price_range.max
        /\ \E f \in Range(Collected) : Price(f) = result.price_range.min
        /\ \E f \in Range(Collected) : Price(f) = result.price_range.max

\* C10 amended: price_range.min and .max are the least and the greatest price
\* over the list the search returned, after the top-10 cut; a candidate the
\* cut dropped does not count.
C10_RangeOverReturnedList ==
    Succeeded =>
        /\ \A f \in Range(alternatives) :
              result.price_range.min <= Price(f) /\ Price(f) <= result.price_range.max
        /\ \E f \in Range(alternatives) : Price(f) = result.price_range.min
        /\ \E f \in Range(alternatives) : Price(f) = result.price_range.max

\* a dropped candidate dearer than every returned one
C10_Witness ==
    /\ Succeeded
    /\ \E g \in Range(Collected) \ Range(alternatives) :
          Price(g) > result.price_range.max
    /\ result.price_range.min < result.price_range.max

---------------------------------------------------------------------------
(* C11..C15: price range bounds, the no-alternatives result, bad requests *)

\* analyze_disruption has returned (to lambda_handler)
Analyzed == pc \in {"done", "responded"} /\ caller = "analyze"

\* C11: in a successful result price_range.min <= price_range.max, and each
\* of the two is the price of a candidate collected during the scan.
C11_RangeWithinCollectedPrices ==
    Succeeded =>
        /\ result.price_range.min <= result.price_range.max
        /\ \E f \in Range(Collected) : Price(f) = result.price_range.min
        /\ \E f \in Range(Collected) : Price(f) = result.price_range.max

\* a successful result over fewer than ten candidates of different prices
C11_Witness ==
    /\ Succeeded
    /\ Len(Collected) \in 2..9
    /\ result.price_range.min = 9
    /\ result.price_range.max = 25

\* the j-th day-query failed, was refused, or returned no offer
FailedOrEmpty(j) ==
    \/ IsFailedQuery(replies[j])
    \/ IsNon200(replies[j])
    \/ replies[j].kind = "http" /\ replies[j].data = <<>>

\* C12: when every day-query of the scan failed or returned zero offers,
\* analyze_disruption returns the no-alternatives structure as its value:
\* success false, the message, the request's original_flight and
\* disruption_reason ('cancellation' when the request has none), no
\* recommendations; and the handler passes it on with status 500.
C12_NoAlternativesStructure ==
    (Analyzed /\ \A j \in 1..Len(replies) : FailedOrEmpty(j)) =>
        /\ result = [success |-> FALSE,
                     message |-> "Unable to find alternative flights",
                     original_flight |-> event.original_flight,
                     disruption_reason |->
                         IF event.disruption_reason = Absent THEN "cancellation"
                         ELSE event.disruption_reason,
                     recommendations |-> <<>>]
        /\ pc = "responded" => response = [statusCode |-> 500, body |-> result]

\* all seven day-queries were issued; none yielded an offer, some were refused
\* and some returned an empty list
C12_Witness ==
    /\ Analyzed
    /\ Len(replies) = 7
    /\ \A j \in 1..Len(replies) : FailedOrEmpty(j)
    /\ \E j \in 1..Len(replies) : IsNon200(replies[j])
    /\ \E j \in 1..Len(replies) : replies[j].kind = "http" /\ replies[j].status = 200
    /\ ~result.success
    /\ result.disruption_reason = "cancellation"

\* the result is the no-alternatives structure
IsNoAlternatives(r) ==
    ~r.success /\ r.message = "Unable to find alternative flights"

\* C13: a request whose original_date does not parse is not answered with
\* the no-alternatives result (it ends in an error that reaches the caller);
\* stated for the requests whose token was obtained, so that the date is the
\* only thing wrong.
C13_MalformedDateIsNotNoAlternatives ==
    (Analyzed /\ ~StrptimeOk(original_date) /\ raised # "token") =>
        ~IsNoAlternatives(result)

\* C14: when original_date does not parse, no day-query is issued for any
\* offset (and no reply is read).
C14_NoQueryOnMalformedDate ==
    ~StrptimeOk(original_date) => queries = <<>> /\ replies = <<>>

\* the search was called with "15-12-2025", obtained its token and returned
C14_Witness ==
    /\ SearchReturned
    /\ original_date = <<15, 12, 2025>>
    /\ token_calls = 1
    /\ raised = "date"
    /\ queries = <<>>

\* the body lacks a required parameter, or has it empty
LacksRequired(ev) ==
    \/ ev.original_flight \in {Absent, ""}
    \/ ev.origin \in {Absent, ""}
    \/ ev.destination \in {Absent, ""}
    \/ ev.original_date = <<>>

\* C15: a request lacking original_flight, origin, destination or
\* original_date is answered with status 400 and success false, and neither
\* analyze_disruption nor the token request nor any day-query happens.
C15_MissingParameterRejected ==
    (event # NoEvent /\ LacksRequired(event)) =>
        /\ pc = "responded"
        /\ response.statusCode = 400
        /\ ~response.body.success
        /\ caller = "none"
        /\ token_calls = 0
        /\ queries = <<>>

\* a request with an empty origin was answered
C15_Witness ==
    /\ pc = "responded"
    /\ event.origin = ""
    /\ event.original_flight = "AA123"
    /\ response.statusCode = 400

---------------------------------------------------------------------------
(* C16..C20: the request's days_range, category order, dates, stability *)

\* C16 as stated: a request with days_range = 0, once analyzed after a scan
\* in which nothing was raised, has caused exactly one day-query, at offset
\* 0, and its result has neither a Next Day Options nor an Alternative Dates
\* category.
C16_ZeroRangeRequestQueriesOnce ==
    (Analyzed /\ event.days_range = <<0>> /\ raised = "none") =>
        /\ queries = <<0>>
        /\ FlightsOf("Next Day Options") = <<>>
        /\ FlightsOf("Alternative Dates") = <<>>

\* C16 amended: a request's days_range is not read: every request that
\* reaches analyze_disruption is scanned with days_range = 3, its first
\* day-query being for offset -3.  Only a direct call of the search with
\* days_range = 0 issues, once token and date are in hand, exactly one
\* day-query, at offset 0, and returns nothing but offset-0 candidates.
C16_RangeIsNotTakenFromRequest ==
    /\ (caller = "analyze" /\ pc # "analyze") =>
          /\ days_range = 3
          /\ queries # <<>> => queries[1] = 0 - 3
          /\ (pc = "responded" /\ raised = "none") => Len(queries) = 7
    /\ (caller = "direct" /\ days_range = 0 /\ SearchReturned
          /\ raised \notin {"token", "date"}) =>
          /\ queries = <<0>>
          /\ \A f \in Range(alternatives) : f.date_offset_days = 0

\* a request carrying days_range = 0 was scanned over seven days and got a
\* Next Day category
C16_Witness ==
    /\ pc = "responded"
    /\ event.days_range = <<0>>
    /\ Len(queries) = 7
    /\ FlightsOf("Next Day Options") # <<>>

\* the (category, priority) pairs of a list of categories
Labels(recs) == [k \in 1..Len(recs) |-> <<recs[k].category, recs[k].priority>>]

\* C17: the recommendations hold a category exactly for each non-empty
\* bucket of the categorized list, in the order Same Day Alternatives (HIGH),
\* Next Day Options (MEDIUM), Alternative Dates (LOW).
C17_CategoriesPresentInFixedOrder ==
    Succeeded =>
        Labels(result.recommendations) =
            (IF WithOffsetZero(alternatives) # <<>>
             THEN << <<"Same Day Alternatives", "HIGH">> >> ELSE <<>>)
            \o (IF WithOffsetOne(alternatives) # <<>>
                THEN << <<"Next Day Options", "MEDIUM">> >> ELSE <<>>)
            \o (IF WithOffsetFar(alternatives) # <<>>
                THEN << <<"Alternative Dates", "LOW">> >> ELSE <<>>)

\* no same-day candidate: the list starts with Next Day, then Alternative Dates
C17_Witness ==
    /\ Succeeded
    /\ Labels(result.recommendations) =
          << <<"Next Day Options", "MEDIUM">>, <<"Alternative Dates", "LOW">> >>

\* C18: within every category the flights are in rank order: ascending
\* |offset|, then ascending price.
C18_CategoryFlightsRanked ==
    Succeeded =>
        \A k \in 1..Len(result.recommendations) :
            IsRanked(result.recommendations[k].flights)

\* Alternative Dates over two |offset| values, Same Day over two prices
C18_Witness ==
    /\ Succeeded
    /\ \E f, g \in Range(FlightsOf("Alternative Dates")) :
          Abs(f.date_offset_days) < Abs(g.date_offset_days)
    /\ \E f, g \in Range(FlightsOf("Same Day Alternatives")) : Price(f) < Price(g)

\* C19: every candidate's date is original_date shifted by its
\* date_offset_days through the calendar, month and year ends included.
C19_OffsetIsDateDifference ==
    StrptimeOk(original_date) =>
        \A f \in Range(all_alternatives) \cup Range(alternatives) :
            f.date = DaysLater(original_date, f.date_offset_days)

\* a returned list with dates in the year after original_date's and in its
\* own month
C19_Witness ==
    /\ pc = "returned"
    /\ \E f \in Range(alternatives) : f.date[1] = original_date[1] + 1
    /\ \E f \in Range(alternatives) :
          f.date[2] = original_date[2] /\ f.date_offset_days < 0

\* position of candidate f in the collection order c
PositionIn(c, f) == CHOOSE k \in 1..Len(c) : c[k] = f

SameRank(f, g) ==
    /\ Abs(f.date_offset_days) = Abs(g.date_offset_days)
    /\ Price(f) = Price(g)

\* C20: when the search returns from a completed scan, candidates of equal
\* |offset| and equal price stand in the sorted aggregate, and in the
\* returned list, in their collection order; so at equal price a candidate
\* of offset -k stands before one of offset +k.
C20_SortIsStable ==
    (pc = "returned" /\ raised = "none") =>
        /\ LET c == Collected
           IN  \A i, j \in 1..Len(all_alternatives) :
                  (i < j /\ SameRank(all_alternatives[i], all_alternatives[j])) =>
                      PositionIn(c, all_alternatives[i]) < PositionIn(c, all_alternatives[j])
        /\ \A i, j \in 1..Len(alternatives) :
              (/\ alternatives[i].date_offset_days < 0
               /\ alternatives[j].date_offset_days = -alternatives[i].date_offset_days
               /\ Price(alternatives[i]) = Price(alternatives[j])) => i < j

\* equal prices at offsets -1 and +1 and twice within one day
C20_Witness ==
    /\ pc = "returned"
    /\ raised = "none"
    /\ \E i, j \in 1..Len(alternatives) :
          /\ alternatives[i].date_offset_days = 0 - 1
          /\ alternatives[j].date_offset_days = 1
          /\ Price(alternatives[i]) = Price(alternatives[j])
    /\ \E i, j \in 1..Len(alternatives) :
          /\ i < j
          /\ alternatives[i].date_offset_days = alternatives[j].date_offset_days
          /\ Price(alternatives[i]) = Price(alternatives[j])

---------------------------------------------------------------------------
(* C21..C23: the per-day cap, the order of the queries, the handler's answer *)

\* the candidates of offset o in s, in the order of s
AtOffset(s, o) == SelectSeq(s, LAMBDA f : f.date_offset_days = o)

\* the (price, duration) pairs of a list of offers or of candidates
Pairs(s) == [i \in 1..Len(s) |-> <<s[i].total, s[i].duration>>]

\* the first three offers of the j-th reply, none unless its status is 200
FirstThree(j) ==
    IF replies[j].kind = "http" /\ replies[j].status = 200
    THEN SubSeq(replies[j].data, 1, Min(3, Len(replies[j].data)))
    ELSE <<>>

\* C21: the aggregate never holds more than 3 candidates of one offset; the
\* candidates of an offset are among the first 3 offers of that day's 200
\* reply, and until the sort they are exactly those, in response order; no
\* candidate has an offset that was not queried.
C21_AtMostThreePerOffset ==
    /\ \A j \in 1..Len(replies) :
          LET kept == Pairs(AtOffset(all_alternatives, queries[j]))
              first == Pairs(FirstThree(j))
          IN  /\ Len(kept) <= 3
              /\ Range(kept) \subseteq Range(first)
              /\ pc = "loop" => kept = first
    /\ \A f \in Range(all_alternatives) :
          \E j \in 1..Len(queries) : queries[j] = f.date_offset_days

\* a day answered with four offers: three kept, the fourth (the cheapest) not
C21_Witness ==
    /\ pc = "returned"
    /\ raised = "none"
    /\ \E j \in 1..Len(replies) :
          /\ Len(replies[j].data) = 4
          /\ Len(AtOffset(all_alternatives, queries[j])) = 3
          /\ \A f \in Range(AtOffset(all_alternatives, queries[j])) :
                f.total # replies[j].data[4].total

\* C22: the day-queries are issued one at a time, each after the reply to
\* the one before it was received, in strictly ascending offset order within
\* -days_range..days_range; no offset is queried twice, so a failed or
\* refused day-query is never retried.
C22_QueriesSequentialAscending ==
    /\ Len(replies) = Len(queries)
    /\ \A i \in 1..Len(queries) : queries[i] \in (0 - days_range)..days_range
    /\ \A i \in 1..(Len(queries) - 1) : queries[i] < queries[i + 1]
    /\ \A i, j \in 1..Len(queries) : i # j => queries[i] # queries[j]

\* a completed scan of seven queries, two of them refused
C22_Witness ==
    /\ pc = "returned"
    /\ raised = "none"
    /\ Len(queries) = 7
    /\ \E i, j \in 1..Len(replies) :
          i < j /\ IsNon200(replies[i]) /\ IsNon200(replies[j])

\* the answer is a status code with a body that carries a success flag
IsStructured(r) ==
    /\ r.statusCode \in {200, 400, 500}
    /\ r.body.success \in BOOLEAN
    /\ r.statusCode = 200 <=> r.body.success

\* C23: no exception leaves lambda_handler: whatever the event, and whatever
\* failed on the way (the body unreadable, the token not obtained, a
\* day-query or its JSON body failing, the sort raising), the handler ends
\* by returning a status code and a body with a success flag, which is
\* false with status 500 when something failed.
C23_HandlerAlwaysStructured ==
    /\ pc # "escaped"
    /\ pc = "responded" =>
          /\ IsStructured(response)
          /\ (raised # "none" \/ event = NoEvent) =>
                response.statusCode = 500 /\ ~response.body.success

\* the handler answered after a day-query of its scan raised a network error
C23_Witness ==
    /\ pc = "responded"
    /\ raised = "query"
    /\ replies[Len(replies)] = NetworkErrorReply
    /\ response.statusCode = 500
    /\ ~response.body.success

---------------------------------------------------------------------------
(* C24..C27: timeouts, stale tokens and the token cache (ContainerSpec) *)

\* C24: a scan whose day-queries have begun always reaches a result: as long
\* as the invocation is not over a step is possible, also after a day-query
\* that the provider never answers (its timeout would end the wait).
C24_ScanReachesResult ==
    queries # <<>> => (InvocationOver \/ ENABLED ContainerNext)

\* the scan runs with a token that was cached by an earlier invocation
ScanUsesCachedToken ==
    /\ access_token # NoToken
    /\ access_token = token_cache.access_token
    /\ token_cache.expiry < now + 1500

\* C25: a cached token that the provider stopped accepting, before or
\* during the scan, loses no candidate: when a scan that runs with the
\* cached token completes, every offset queried has its candidates in the
\* aggregate (the provider has offers for every day it is asked about with
\* a token it accepts).
C25_StaleTokenLosesNoCandidate ==
    (SearchReturned /\ raised = "none" /\ ScanUsesCachedToken) =>
        \A j \in 1..Len(queries) : AtOffset(all_alternatives, queries[j]) # <<>>

\* a step that is one call of _get_amadeus_token
TokenCallStep == token_calls' = token_calls + 1

\* no token is cached, or the time is at or past the cached expiry
MustRefresh == token_cache.access_token = NoToken \/ now >= token_cache.expiry

C27_TokenFailureAborts ==
    /\ [](raised = "token" =>
            /\ queries = <<>>
            /\ replies = <<>>
            /\ alternatives = <<>>
            /\ Analyzed =>
                  /\ IsNoAlternatives(result)
                  /\ result.recommendations = <<>>
                  /\ result.original_flight = event.original_flight)
    /\ [][raised' = "token" => token_cache' = token_cache]_vars

\* the token request failed while the cache held an expired token: the
\* cache still holds it, and the request was answered with no alternatives
C27_Witness ==
    /\ raised = "token"
    /\ pc = "responded"
    /\ token_requests = 2
    /\ token_cache.access_token = 1
    /\ now >= token_cache.expiry
    /\ IsNoAlternatives(result)

---------------------------------------------------------------------------
(* C28: the offer-price credentials cache (OfferSpec) *)

\* C28: get_amadeus_credentials never returns a cached entry stored 3600
\* seconds or more before the call, whatever the entry's age.
C28_CachedEntryYoungerThanAnHour ==
    offer_last.outcome = "cached" => offer_last.age < 3600

---------------------------------------------------------------------------
(* C29: the global agent instance (AgentSpec) *)

\* the invocation of this step got as far as get_agent_instance
ReachesGetAgentInstance ==
    /\ agent_entries' = agent_entries + 1
    /\ agent_last'.outcome \in {"response", "entrypoint_error"}

\* C29: once created the agent instance is never replaced, and every later
\* invocation that is answered is answered by it, whatever its bearer token;
\* a failed construction leaves the instance unset, and an invocation that
\* finds it unset attempts the construction again.
C29_AgentInstanceCreatedOnce ==
    [][/\ agent_instance # NoAgent => agent_instance' = agent_instance
       /\ (ReachesGetAgentInstance /\ agent_instance # NoAgent) =>
              /\ agent_constructions' = agent_constructions
              /\ agent_last'.outcome = "response"
              /\ agent_last'.serial = agent_instance.serial
       /\ (ReachesGetAgentInstance /\ agent_instance = NoAgent) =>
              /\ agent_constructions' = agent_constructions + 1
              /\ IF agent_last'.outcome = "entrypoint_error"
                  THEN agent_instance' = NoAgent
                  ELSE /\ agent_instance'.serial = agent_constructions'
                       /\ agent_instance'.bearer_token = agent_last'.bearer_token
                       /\ agent_last'.serial = agent_instance'.serial
       /\ ~ReachesGetAgentInstance =>
              UNCHANGED <<agent_instance, agent_constructions>>]_vars

\* a first construction failed, the second made the agent, and a later
\* invocation with another bearer token was answered by that agent
C29_Witness ==
    /\ agent_instance.serial = 2
    /\ agent_constructions = 2
    /\ agent_entries = MaxAgentInvocations
    /\ agent_last.outcome = "response"
    /\ agent_last.serial = 2
    /\ agent_last.bearer_token \notin {NoBearer, agent_instance.bearer_token}

---------------------------------------------------------------------------
(* C30: the runtime configuration of the home page (HomeSpec) *)

\* C30: whenever the home page was run for an authenticated user with the
\* runtime ARN configured, init_agent_runtime gave a usable configuration and
\* the chat was shown, after a Logout and a new login as well.
C30_HomePageHasRuntimeConfig ==
    (/\ session_state.authenticated
     /\ home_page.page \in {"home", "init_error"}
     /\ home_page.arn) =>
        /\ home_page.page = "home"
        /\ ~NoConfig(session_state.agent_runtime_config)

====
